---------------------------- MODULE Spec2Model ----------------------------
(***************************************************************************)
(* Model of the Monte Carlo fight simulator (sim/odds.py, sim/model.py,    *)
(* sim/engine.py, sim/metrics.py) and of the Streamlit driver (app.py).    *)
(*                                                                         *)
(* Floating-point values are modelled as exact rationals [n, d] with d > 0 *)
(* kept in lowest terms; rounding drift of IEEE doubles is not modelled.   *)
(* numpy's PCG64 generator is modelled as a small full-period congruential *)
(* generator whose uniform outputs lie on the grid k / RngStates.          *)
(***************************************************************************)
EXTENDS Integers, Sequences, FiniteSets, TLC

(***************************************************************************)
(* Bounds of the model.                                                    *)
(***************************************************************************)
RngStates == 16     \* number of generator states; uniform draws are k/RngStates
MaxSeed == 1        \* seeds range over 0..MaxSeed
MaxCount == 2       \* batch counts range over -1..MaxCount
MaxStartId == 1     \* start ids range over 0..MaxStartId
MaxCalls == 2       \* calls recorded per engine since it was last seeded
MaxPrice == 60      \* prices of the conversion specification: -MaxPrice..MaxPrice

(***************************************************************************)
(* State.                                                                  *)
(***************************************************************************)
VARIABLES
    engine, call, result,            \* one engine, its last operation and return
    drawn,                           \* outcome_samples of its last simulate_batch
    eng, calls, seeded, ret, dirty,  \* two engine instances side by side
    out,                             \* and all they returned since seeded
    built,                           \* the last construction attempt
    price, prob,                     \* the last price converted
    session, event,                  \* the driver's session state; whether the
                                     \* last event was a Start or a Reset
    probs, normalized,               \* the last mapping normalized
    metrics, feed, base, batches, mop \* an aggregator fed by an engine

(***************************************************************************)
(* Exact rational arithmetic standing in for Python floats.                *)
(***************************************************************************)
Abs(x) == IF x < 0 THEN -x ELSE x

RECURSIVE GCD(_, _)
GCD(a, b) == IF b = 0 THEN a ELSE GCD(b, a % b)

Rat(n, d) ==
    LET g == GCD(Abs(n), d)
    IN  [n |-> n \div g, d |-> d \div g]

RatZero == [n |-> 0, d |-> 1]
RatAdd(a, b) == Rat(a.n * b.d + b.n * a.d, a.d * b.d)
RatDiv(a, b) ==                                \* b.n # 0
    IF b.n < 0
    THEN Rat(-(a.n * b.d), a.d * (-b.n))
    ELSE Rat(a.n * b.d, a.d * b.n)
RatLt(a, b) == a.n * b.d < b.n * a.d
RatEq(a, b) == a.n * b.d = b.n * a.d

RECURSIVE SumSeq(_)
SumSeq(s) == IF s = <<>> THEN 0 ELSE Head(s) + SumSeq(Tail(s))

\* np.cumsum over a sequence of rationals
RECURSIVE CumSumFrom(_, _)
CumSumFrom(acc, s) ==
    IF s = <<>> THEN <<>>
    ELSE LET c == RatAdd(acc, Head(s))
         IN  <<c>> \o CumSumFrom(c, Tail(s))

cumsum(s) == CumSumFrom(RatZero, s)

\* np.searchsorted(a, v), side='left': binary search, 0-based result in 0..Len(a)
RECURSIVE SearchLeft(_, _, _, _)
SearchLeft(a, v, lo, hi) ==
    IF lo >= hi THEN lo
    ELSE LET mid == lo + ((hi - lo) \div 2)
         IN  IF RatLt(a[mid + 1], v)
             THEN SearchLeft(a, v, mid + 1, hi)
             ELSE SearchLeft(a, v, lo, mid)

\* side='right': the first position whose entry is greater than v
RECURSIVE SearchRight(_, _, _, _)
SearchRight(a, v, lo, hi) ==
    IF lo >= hi THEN lo
    ELSE LET mid == lo + ((hi - lo) \div 2)
         IN  IF RatLt(v, a[mid + 1])
             THEN SearchRight(a, v, lo, mid)
             ELSE SearchRight(a, v, mid + 1, hi)

searchsorted_right(a, v) == SearchRight(a, v, 0, Len(a))

searchsorted(a, v) == SearchLeft(a, v, 0, Len(a))

Min(a, b) == IF a < b THEN a ELSE b

(***************************************************************************)
(* sim/odds.py                                                             *)
(***************************************************************************)
\* the formula of the negative prices applied to every price
american_to_implied_prob_one_branch(odds) ==
    Rat(Abs(odds), Abs(odds) + 100)

american_to_implied_prob_zero_positive(odds) ==
    IF odds >= 0
    THEN Rat(100, odds + 100)
    ELSE Rat(Abs(odds), Abs(odds) + 100)

american_to_implied_prob(odds) ==
    IF odds > 0
    THEN Rat(100, odds + 100)
    ELSE Rat(Abs(odds), Abs(odds) + 100)

\* probs: a function from names to rationals.  The result is the error
\* record when the values sum to zero (ValueError), else the rescaled mapping.
RECURSIVE RatSumOver(_, _)
RatSumOver(f, S) ==
    IF S = {} THEN RatZero
    ELSE LET k == CHOOSE x \in S : TRUE
         IN  RatAdd(f[k], RatSumOver(f, S \ {k}))

\* a zero total answered with the mapping as it was given
normalize_probs_zero_unchanged(p) ==
    LET total == RatSumOver(p, DOMAIN p)
    IN  IF total.n = 0
        THEN [raised |-> "none", value |-> p]
        ELSE [raised |-> "none",
              value |-> [k \in DOMAIN p |-> RatDiv(p[k], total)]]

normalize_probs(p) ==
    LET total == RatSumOver(p, DOMAIN p)
    IN  IF total.n = 0
        THEN [raised |-> "ValueError"]
        ELSE [raised |-> "none",
              value |-> [k \in DOMAIN p |-> RatDiv(p[k], total)]]

(***************************************************************************)
(* sim/model.py                                                            *)
(***************************************************************************)
\* OddsConfig: a plain record; total_rounds is stored and read by no method.
OddsConfig(jko, jdec, pko, pdec, draw, total_rounds) ==
    [joshua_moneyline |-> -1200, paul_moneyline |-> 800,
     joshua_ko |-> jko, joshua_decision |-> jdec,
     paul_ko |-> pko, paul_decision |-> pdec,
     draw |-> draw, total_rounds |-> total_rounds]

\* [p / total for p in rounds] when total > 0, the vector as given otherwise
NormalizeRounds(rounds) ==
    LET total == SumSeq(rounds)
    IN  IF total > 0
        THEN [i \in 1..Len(rounds) |-> Rat(rounds[i], total)]
        ELSE [i \in 1..Len(rounds) |-> Rat(rounds[i], 1)]

WrongLength(rounds) == Len(rounds) # 8

\* RoundDistribution.__post_init__: weights are modelled as integers
RoundDistribution(joshua_ko_rounds, paul_ko_rounds) ==
    IF WrongLength(joshua_ko_rounds)
    THEN [raised |-> "ValueError", msg |-> "joshua_ko_rounds must have 8 values"]
    ELSE IF WrongLength(paul_ko_rounds)
    THEN [raised |-> "ValueError", msg |-> "paul_ko_rounds must have 8 values"]
    ELSE IF \E i \in 1..Len(joshua_ko_rounds) : joshua_ko_rounds[i] < 0
    THEN [raised |-> "ValueError", msg |-> "joshua_ko_rounds must be non-negative"]
    ELSE IF \E i \in 1..Len(paul_ko_rounds) : paul_ko_rounds[i] < 0
    THEN [raised |-> "ValueError", msg |-> "paul_ko_rounds must be non-negative"]
    ELSE [raised |-> "none",
          value |-> [joshua_ko_rounds |-> NormalizeRounds(joshua_ko_rounds),
                     paul_ko_rounds |-> NormalizeRounds(paul_ko_rounds)]]

SimulationParams(odds, round_dist, seed, enable_draw) ==
    [odds |-> odds, round_dist |-> round_dist, seed |-> seed,
     enable_draw |-> enable_draw]

FightResult(sim_id, winner, method, round) ==
    [sim_id |-> sim_id, winner |-> winner, method |-> method, round |-> round]

(***************************************************************************)
(* The generator: np.random.default_rng(seed) and Generator.random.        *)
(***************************************************************************)
\* a generator shared by the instances instead of one seeded per instance
default_rng_shared(seed) ==
    IF eng[1] # [none |-> TRUE] THEN eng[1].rng ELSE (7 * seed + 1) % RngStates

default_rng(seed) == (7 * seed + 1) % RngStates

RngNext(rng) == (5 * rng + 3) % RngStates

\* rng.random(): one uniform value in [0, 1) and the advanced generator
rng_random(rng) ==
    [value |-> Rat(RngNext(rng), RngStates), rng |-> RngNext(rng)]

\* rng.random(count) for count >= 0: count values drawn in order
RECURSIVE rng_random_n(_, _)
rng_random_n(rng, count) ==
    IF count = 0 THEN [values |-> <<>>, rng |-> rng]
    ELSE LET d == rng_random(rng)
             rest == rng_random_n(d.rng, count - 1)
         IN  [values |-> <<d.value>> \o rest.values, rng |-> rest.rng]

(***************************************************************************)
(* sim/engine.py                                                           *)
(***************************************************************************)
BaseOutcomes == <<"joshua_ko", "joshua_decision", "paul_ko", "paul_decision">>

EngineOutcomes(params) ==
    IF params.enable_draw THEN Append(BaseOutcomes, "draw") ELSE BaseOutcomes

\* the draw price converted and normalized whatever the draw flag is
ImpliedProbs_draw_always(params) ==
    LET odds == params.odds
        keys == {"joshua_ko", "joshua_decision", "paul_ko", "paul_decision",
                 "draw"}
    IN  [k \in keys |->
            american_to_implied_prob(
                CASE k = "joshua_ko" -> odds.joshua_ko
                  [] k = "joshua_decision" -> odds.joshua_decision
                  [] k = "paul_ko" -> odds.paul_ko
                  [] k = "paul_decision" -> odds.paul_decision
                  [] k = "draw" -> odds.draw)]

\* the dictionary of implied probabilities built by _compute_probabilities
ImpliedProbs(params) ==
    LET odds == params.odds
        keys == {"joshua_ko", "joshua_decision", "paul_ko", "paul_decision"}
                   \cup (IF params.enable_draw THEN {"draw"} ELSE {})
    IN  [k \in keys |->
            american_to_implied_prob(
                CASE k = "joshua_ko" -> odds.joshua_ko
                  [] k = "joshua_decision" -> odds.joshua_decision
                  [] k = "paul_ko" -> odds.paul_ko
                  [] k = "paul_decision" -> odds.paul_decision
                  [] k = "draw" -> odds.draw)]

\* SimulationEngine._compute_probabilities: the tables, or the ValueError of
\* normalize_probs
compute_probabilities(params) ==
    LET norm == normalize_probs(ImpliedProbs(params))
        outcomes == EngineOutcomes(params)
    IN  IF norm.raised # "none"
        THEN [raised |-> norm.raised]
        ELSE [raised |-> "none",
              normalized_probs |-> norm.value,
              outcomes |-> outcomes,
              cumulative_probs |->
                  cumsum([i \in 1..Len(outcomes) |-> norm.value[outcomes[i]]])]

\* SimulationEngine.__init__
SimulationEngine(params) ==
    LET t == compute_probabilities(params)
    IN  IF t.raised # "none"
        THEN [raised |-> t.raised]
        ELSE [raised |-> "none",
              value |-> [params |-> params,
                         rng |-> default_rng(params.seed),
                         normalized_probs |-> t.normalized_probs,
                         outcomes |-> t.outcomes,
                         cumulative_probs |-> t.cumulative_probs]]

\* the generator replaced and the stored seed left as it is
reseed_forgets_seed(self, seed) ==
    [self EXCEPT !.rng = default_rng(seed)]

\* the seed stored and the generator left as it is
reseed_keeps_generator(self, seed) ==
    [self EXCEPT !.params.seed = seed]

\* SimulationEngine.reseed
reseed(self, seed) ==
    [self EXCEPT !.rng = default_rng(seed), !.params.seed = seed]

\* the cap of _sample_round and the round given to decisions and draws
RoundCap == 8
DecisionRound == 9

\* SimulationEngine._sample_round: the round and the advanced generator
sample_round(round_probs, rng) ==
    LET cum_probs == cumsum(round_probs)
        d == rng_random(rng)
        round_idx == searchsorted(cum_probs, d.value)
    IN  [round |-> Min(round_idx + 1, RoundCap), rng |-> d.rng]

\* the loop of simulate_batch from index i on (0-based), generator threaded
RECURSIVE BatchLoop(_, _, _, _, _, _)
BatchLoop(self, samples, start_id, i, rng, results) ==
    IF i >= Len(samples)
    THEN [raised |-> "none", results |-> results, rng |-> rng]
    ELSE
      LET outcome_idx == searchsorted(self.cumulative_probs, samples[i + 1])
      IN  IF outcome_idx >= Len(self.outcomes)
          THEN [raised |-> "IndexError", results |-> <<>>, rng |-> rng]
          ELSE
            LET outcome == self.outcomes[outcome_idx + 1]
                sim_id == start_id + i
            IN  CASE outcome = "joshua_ko" ->
                       LET r == sample_round(self.params.round_dist.joshua_ko_rounds, rng)
                       IN  BatchLoop(self, samples, start_id, i + 1, r.rng,
                                Append(results,
                                    FightResult(sim_id, "Joshua", "KO/TKO/DQ", r.round)))
                  [] outcome = "joshua_decision" ->
                       BatchLoop(self, samples, start_id, i + 1, rng,
                           Append(results,
                               FightResult(sim_id, "Joshua", "Decision", DecisionRound)))
                  [] outcome = "paul_ko" ->
                       LET r == sample_round(self.params.round_dist.paul_ko_rounds, rng)
                       IN  BatchLoop(self, samples, start_id, i + 1, r.rng,
                                Append(results,
                                    FightResult(sim_id, "Paul", "KO/TKO/DQ", r.round)))
                  [] outcome = "paul_decision" ->
                       BatchLoop(self, samples, start_id, i + 1, rng,
                           Append(results,
                               FightResult(sim_id, "Paul", "Decision", DecisionRound)))
                  [] OTHER ->
                       BatchLoop(self, samples, start_id, i + 1, rng,
                           Append(results,
                               FightResult(sim_id, "Draw", "Decision", DecisionRound)))

\* each record's outcome value drawn right before its round value, record
\* by record
RECURSIVE InterleavedLoop(_, _, _, _, _, _)
InterleavedLoop(self, count, start_id, i, rng, results) ==
    IF i >= count
    THEN [raised |-> "none", results |-> results, rng |-> rng]
    ELSE LET d == rng_random(rng)
             one == BatchLoop(self, <<d.value>>, start_id + i, 0, d.rng, <<>>)
         IN  IF one.raised # "none"
             THEN one
             ELSE InterleavedLoop(self, count, start_id, i + 1, one.rng,
                                  results \o one.results)

simulate_batch_interleaved(self, count, start_id) ==
    IF count < 0
    THEN [raised |-> "ValueError", results |-> <<>>, rng |-> self.rng]
    ELSE InterleavedLoop(self, count, start_id, 0, self.rng, <<>>)

\* at least one value requested from the generator, also for count = 0
simulate_batch_draws_one(self, count, start_id) ==
    IF count < 0
    THEN [raised |-> "ValueError", results |-> <<>>, rng |-> self.rng]
    ELSE LET outcome_samples == rng_random_n(self.rng, count)
             after == IF count = 0 THEN RngNext(self.rng) ELSE outcome_samples.rng
         IN  BatchLoop(self, outcome_samples.values, start_id, 0, after, <<>>)

\* the ids counted from 0 whatever start_id is
simulate_batch_ids_from_zero(self, count, start_id) ==
    IF count < 0
    THEN [raised |-> "ValueError", results |-> <<>>, rng |-> self.rng]
    ELSE LET outcome_samples == rng_random_n(self.rng, count)
         IN  BatchLoop(self, outcome_samples.values, 0, 0,
                       outcome_samples.rng, <<>>)

\* a negative count taken as 0
simulate_batch_clamps(self, count, start_id) ==
    LET n == IF count < 0 THEN 0 ELSE count
        outcome_samples == rng_random_n(self.rng, n)
    IN  BatchLoop(self, outcome_samples.values, start_id, 0,
                  outcome_samples.rng, <<>>)

\* SimulationEngine.simulate_batch: what is raised, the list returned and the
\* generator afterwards.  rng.random(count) raises ValueError for count < 0
\* before anything is drawn.
simulate_batch(self, count, start_id) ==
    IF count < 0
    THEN [raised |-> "ValueError", results |-> <<>>, rng |-> self.rng]
    ELSE LET outcome_samples == rng_random_n(self.rng, count)
         IN  BatchLoop(self, outcome_samples.values, start_id, 0,
                       outcome_samples.rng, <<>>)

(***************************************************************************)
(* Inputs.                                                                 *)
(***************************************************************************)
Seeds == 0..MaxSeed
PairSeeds == {0, MaxSeed}      \* the least and the greatest seed
Counts == -1..MaxCount
StartIds == 0..MaxStartId

Uniform8 == [i \in 1..8 |-> 1]
Zero8 == [i \in 1..8 |-> 0]
Skew8 == <<2, 1, 0, 0, 0, 0, 0, 1>>

OddsChoices ==
    {OddsConfig(jko, 300, 300, 300, 300, rounds) :
        jko \in {-300, 0}, rounds \in {6, 8, 10}}

JoshuaWeightChoices == {Uniform8, Skew8}
PaulWeightChoices == {Skew8, Zero8}

None == [none |-> TRUE]

(***************************************************************************)
(* One engine under test: the engine, the last operation applied to it     *)
(* (call) and what the last simulate_batch returned or raised (result).    *)
(***************************************************************************)
\* SimulationEngine(SimulationParams(odds, RoundDistribution(jw, pw), seed, draw));
\* an attempt that raises binds no engine and leaves the state as it is
Construct(odds, jw, pw, seed, draw) ==
    LET rd == RoundDistribution(jw, pw)
    IN  /\ rd.raised = "none"
        /\ LET e == SimulationEngine(SimulationParams(odds, rd.value, seed, draw))
           IN  /\ e.raised = "none"
               /\ engine' = e.value
        /\ call' = [op |-> "construct"]
        /\ result' = None
        /\ drawn' = <<>>

Reseed(seed) ==
    /\ engine # None
    /\ engine' = reseed(engine, seed)
    /\ call' = [op |-> "reseed", seed |-> seed]
    /\ UNCHANGED <<result, drawn>>

SimulateBatch(count, start_id) ==
    /\ engine # None
    /\ LET r == simulate_batch(engine, count, start_id)
       IN  /\ engine' = [engine EXCEPT !.rng = r.rng]
           /\ result' = [raised |-> r.raised, results |-> r.results]
    /\ drawn' = IF count < 0 THEN <<>> ELSE rng_random_n(engine.rng, count).values
    /\ call' = [op |-> "simulate_batch", count |-> count, start_id |-> start_id]

(***************************************************************************)
(* Two engine instances side by side.  For each instance: the engine, the  *)
(* calls made since its generator was last seeded, how it was seeded, what *)
(* the last of those calls returned, and whether the instance had consumed *)
(* generator output before its last reseed (eng, calls, seeded, ret,       *)
(* dirty).                                                                 *)
(***************************************************************************)
PairIds == {1, 2}
PairCounts == {0, MaxCount}
PairStartIds == {0, MaxStartId}

PairParams ==
    {SimulationParams(OddsConfig(-300, 300, 300, 300, 300, 8),
                      RoundDistribution(Uniform8, Skew8).value, seed, draw) :
        seed \in PairSeeds, draw \in BOOLEAN}

PairConstruct(e, params) ==
    /\ LET r == SimulationEngine(params)
       IN  /\ r.raised = "none"
           /\ eng' = [eng EXCEPT ![e] = r.value]
    /\ calls' = [calls EXCEPT ![e] = <<>>]
    /\ seeded' = [seeded EXCEPT ![e] = "init"]
    /\ ret' = [ret EXCEPT ![e] = None]
    /\ dirty' = [dirty EXCEPT ![e] = FALSE]
    /\ out' = [out EXCEPT ![e] = <<>>]

PairReseed(e, seed) ==
    /\ eng[e] # None
    /\ eng' = [eng EXCEPT ![e] = reseed(eng[e], seed)]
    /\ calls' = [calls EXCEPT ![e] = <<>>]
    /\ seeded' = [seeded EXCEPT ![e] = "reseed"]
    /\ ret' = [ret EXCEPT ![e] = None]
    /\ dirty' = [dirty EXCEPT ![e] =
                    \E i \in 1..Len(calls[e]) : calls[e][i].count > 0]
    /\ out' = [out EXCEPT ![e] = <<>>]

PairSimulateBatch(e, count, start_id) ==
    /\ eng[e] # None
    /\ Len(calls[e]) < MaxCalls
    /\ LET r == simulate_batch(eng[e], count, start_id)
       IN  /\ eng' = [eng EXCEPT ![e].rng = r.rng]
           /\ ret' = [ret EXCEPT ![e] = [raised |-> r.raised, results |-> r.results]]
           /\ out' = [out EXCEPT ![e] = @ \o r.results]
    /\ calls' = [calls EXCEPT ![e] =
                    Append(@, [count |-> count, start_id |-> start_id])]
    /\ UNCHANGED <<seeded, dirty>>

(***************************************************************************)
(* Construction attempts: the arguments of the last attempt and what it    *)
(* raised or produced (built).                                             *)
(***************************************************************************)
Uniform7 == [i \in 1..7 |-> 1]
Uniform9 == [i \in 1..9 |-> 1]
Negative8 == <<-1, 1, 1, 1, 1, 1, 1, 1>>

BuildOdds ==
    {OddsConfig(jko, jko, jko, jko, 300, rounds) :
        jko \in {0, 300}, rounds \in {7, 8, 9}}

BuildWeights == {Uniform7, Uniform8, Uniform9, Zero8, Negative8}

\* RoundDistribution(...), SimulationParams(...) and SimulationEngine(...) in
\* the order create_engine_from_sidebar calls them; the first error ends it
BuildEngine(odds, jw, pw, seed, draw) ==
    LET rd == RoundDistribution(jw, pw)
    IN  IF rd.raised # "none"
        THEN [raised |-> rd.raised, at |-> "RoundDistribution"]
        ELSE LET e == SimulationEngine(SimulationParams(odds, rd.value, seed, draw))
             IN  IF e.raised # "none"
                 THEN [raised |-> e.raised, at |-> "SimulationEngine"]
                 ELSE [raised |-> "none", engine |-> e.value]

Build(odds, jw, pw, seed, draw) ==
    built' = [odds |-> odds, joshua_ko_rounds |-> jw, paul_ko_rounds |-> pw,
              enable_draw |-> draw, outcome |-> BuildEngine(odds, jw, pw, seed, draw)]

(***************************************************************************)
(* Price conversion: the last price converted and the probability returned.*)
(***************************************************************************)
\* the prices converted by tests/test_odds.py
TestPrices == {-1200, 800, 100}

Prices == ((-MaxPrice)..MaxPrice) \cup TestPrices

Convert(odds) ==
    /\ price' = odds
    /\ prob' = american_to_implied_prob(odds)

(***************************************************************************)
(* Normalization: the last mapping given to normalize_probs and what the   *)
(* call raised or returned.                                                *)
(***************************************************************************)
MaxNumer == 2       \* values of a mapping are k/4 for k in -MaxNumer..MaxNumer

NormKeys == {"A", "B", "C"}

NormValues == {Rat(k, 4) : k \in (-MaxNumer)..MaxNumer}

\* the mappings over every set of keys, the empty one included
NormInputs == UNION {[ks -> NormValues] : ks \in SUBSET NormKeys}

Normalize(p) ==
    /\ probs' = p
    /\ normalized' = normalize_probs(p)

(***************************************************************************)
(* sim/metrics.py: a SimulationMetrics object is [results, history].       *)
(***************************************************************************)
SimulationMetrics == [results |-> <<>>, history |-> <<>>]

\* records whose sim_id the aggregator already holds are left out
add_results_unique_ids(self, results) ==
    [self EXCEPT !.results =
        @ \o SelectSeq(results,
                 LAMBDA r : \A i \in 1..Len(self.results) :
                               self.results[i].sim_id # r.sim_id)]

add_results(self, results) == [self EXCEPT !.results = @ \o results]

reset(self) == [self EXCEPT !.results = <<>>, !.history = <<>>]

CountWinner(results, winner) ==
    Cardinality({i \in 1..Len(results) : results[i].winner = winner})

CountWinnerMethod(results, winner, method) ==
    Cardinality({i \in 1..Len(results) :
                    results[i].winner = winner /\ results[i].method = method})

\* (count / total) * 100 as an exact ratio; count / 0 raises
Pct(count, total) ==
    IF total = 0
    THEN [raised |-> "ZeroDivisionError"]
    ELSE Rat(count * 100, total)

\* the percentages computed without the test for an empty list
get_summary_stats_unguarded(self) ==
    LET total == Len(self.results)
        r == self.results
    IN  [total_sims |-> total,
         joshua_win_pct |-> Pct(CountWinner(r, "Joshua"), total),
         paul_win_pct |-> Pct(CountWinner(r, "Paul"), total),
         draw_pct |-> Pct(CountWinner(r, "Draw"), total),
         joshua_ko_pct |-> Pct(CountWinnerMethod(r, "Joshua", "KO/TKO/DQ"), total),
         joshua_decision_pct |->
             Pct(CountWinnerMethod(r, "Joshua", "Decision"), total),
         paul_ko_pct |-> Pct(CountWinnerMethod(r, "Paul", "KO/TKO/DQ"), total),
         paul_decision_pct |->
             Pct(CountWinnerMethod(r, "Paul", "Decision"), total)]

get_summary_stats(self) ==
    IF self.results = <<>>
    THEN [total_sims |-> 0,
          joshua_win_pct |-> RatZero, paul_win_pct |-> RatZero,
          draw_pct |-> RatZero,
          joshua_ko_pct |-> RatZero, joshua_decision_pct |-> RatZero,
          paul_ko_pct |-> RatZero, paul_decision_pct |-> RatZero]
    ELSE LET total == Len(self.results)
             r == self.results
         IN  [total_sims |-> total,
              joshua_win_pct |-> Pct(CountWinner(r, "Joshua"), total),
              paul_win_pct |-> Pct(CountWinner(r, "Paul"), total),
              draw_pct |-> Pct(CountWinner(r, "Draw"), total),
              joshua_ko_pct |-> Pct(CountWinnerMethod(r, "Joshua", "KO/TKO/DQ"), total),
              joshua_decision_pct |->
                  Pct(CountWinnerMethod(r, "Joshua", "Decision"), total),
              paul_ko_pct |-> Pct(CountWinnerMethod(r, "Paul", "KO/TKO/DQ"), total),
              paul_decision_pct |->
                  Pct(CountWinnerMethod(r, "Paul", "Decision"), total)]

\* the number of rounds of the histogram
HistogramRounds == 8

\* the KO rows of round j (1-based) won by winner, among the rows whose
\* 0-based round lies in 0..limit-1
CountKoRound(results, winner, j, limit) ==
    Cardinality({i \in 1..Len(results) :
                    /\ results[i].method = "KO/TKO/DQ"
                    /\ 0 <= results[i].round - 1
                    /\ results[i].round - 1 < limit
                    /\ results[i].round - 1 = j - 1
                    /\ results[i].winner = winner})

\* the last round left out of the histogram
get_ko_round_distribution_short(self) ==
    [Joshua |-> [j \in 1..HistogramRounds |->
                    CountKoRound(self.results, "Joshua", j, HistogramRounds - 1)],
     Paul |-> [j \in 1..HistogramRounds |->
                    CountKoRound(self.results, "Paul", j, HistogramRounds - 1)]]

get_ko_round_distribution(self) ==
    IF self.results = <<>>
    THEN [Joshua |-> [j \in 1..HistogramRounds |-> 0],
          Paul |-> [j \in 1..HistogramRounds |-> 0]]
    ELSE [Joshua |-> [j \in 1..HistogramRounds |->
                        CountKoRound(self.results, "Joshua", j, HistogramRounds)],
          Paul |-> [j \in 1..HistogramRounds |->
                        CountKoRound(self.results, "Paul", j, HistogramRounds)]]

record_history(self, tick) ==
    LET stats == get_summary_stats(self)
    IN  [self EXCEPT !.history =
            Append(@, [tick |-> tick,
                       total_sims |-> stats.total_sims,
                       joshua_win_pct |-> stats.joshua_win_pct,
                       joshua_ko_pct |-> stats.joshua_ko_pct])]

(***************************************************************************)
(* An aggregator fed by an engine: the aggregator (metrics), the engine    *)
(* whose batches it is given (feed), the aggregator as it was when the     *)
(* current run of consecutive add_results calls began (base), the batches  *)
(* added in that run (batches) and the last operation (mop).               *)
(***************************************************************************)
MaxRecords == 4     \* records held by the aggregator
MaxHistory == 1     \* snapshots held by the aggregator

MetricsCounts == {0, 1, MaxCount}
MetricsTicks == {1}

RECURSIVE Flatten(_)
Flatten(ss) == IF ss = <<>> THEN <<>> ELSE Head(ss) \o Flatten(Tail(ss))

MetricsNew(params) ==
    /\ LET e == SimulationEngine(params)
       IN  /\ e.raised = "none"
           /\ feed' = e.value
    /\ metrics' = SimulationMetrics
    /\ base' = SimulationMetrics
    /\ batches' = <<>>
    /\ mop' = [op |-> "new"]

MetricsAdd(count, start_id) ==
    /\ metrics # None
    /\ Len(batches) < MaxCalls
    /\ Len(metrics.results) + count <= MaxRecords
    /\ LET r == simulate_batch(feed, count, start_id)
       IN  /\ r.raised = "none"
           /\ feed' = [feed EXCEPT !.rng = r.rng]
           /\ metrics' = add_results(metrics, r.results)
           /\ batches' = Append(batches, r.results)
    /\ mop' = [op |-> "add_results", count |-> count]
    /\ UNCHANGED base

MetricsReset ==
    /\ metrics # None
    /\ metrics' = reset(metrics)
    /\ base' = reset(metrics)
    /\ batches' = <<>>
    /\ mop' = [op |-> "reset", dropped |-> Len(metrics.results)]
    /\ UNCHANGED feed

MetricsRecordHistory(tick) ==
    /\ metrics # None
    /\ Len(metrics.history) < MaxHistory
    /\ metrics' = record_history(metrics, tick)
    /\ base' = record_history(metrics, tick)
    /\ batches' = <<>>
    /\ mop' = [op |-> "record_history", tick |-> tick]
    /\ UNCHANGED feed

(***************************************************************************)
(* app.py: the session state of the driver.  Every step is one run of the  *)
(* script: the handler of the button clicked, if any, and then, unless     *)
(* st.rerun() ended the run, the simulation loop and the code after it.    *)
(***************************************************************************)
MaxSimsPerTick == 2    \* "Sims per tick" is 1 or MaxSimsPerTick
MaxSims == 4           \* the "Max sims" input
HistoryEvery == 10

SimsPerTick == {1, MaxSimsPerTick}

DriverOdds == {OddsConfig(-300, 300, 300, 300, 300, 8),
               OddsConfig(0, 0, 0, 0, 300, 8)}

RevealOptions == {"10", "100", "1000", "All"}

RevealSize(option) ==
    CASE option = "10" -> 10
      [] option = "100" -> 100
      [] option = "1000" -> 1000

SessionInit ==
    [engine |-> None, metrics |-> SimulationMetrics, running |-> FALSE,
     sim_id_counter |-> 0, tick_counter |-> 0, revealed_count |-> 0]

\* the id counter advanced by one per tick instead of by the batch size
SimulationLoop_counts_ticks(s, sims_per_tick, max_sims) ==
    IF s.running /\ s.engine # None
          /\ get_summary_stats(s.metrics).total_sims < max_sims
    THEN LET r == simulate_batch(s.engine, sims_per_tick, s.sim_id_counter)
         IN  IF r.raised # "none"
             THEN [session |-> [s EXCEPT !.engine.rng = r.rng, !.running = FALSE],
                   rerun |-> FALSE]
             ELSE LET tick == s.tick_counter + 1
                      added == add_results(s.metrics, r.results)
                  IN  [session |->
                          [s EXCEPT !.engine.rng = r.rng,
                                    !.metrics = IF tick % HistoryEvery = 0
                                                THEN record_history(added, tick)
                                                ELSE added,
                                    !.sim_id_counter = @ + 1,
                                    !.tick_counter = tick],
                       rerun |-> TRUE]
    ELSE [session |-> s, rerun |-> FALSE]

\* lines 315-339: the session afterwards and whether st.rerun() ended the run
SimulationLoop(s, sims_per_tick, max_sims) ==
    IF s.running /\ s.engine # None
          /\ get_summary_stats(s.metrics).total_sims < max_sims
    THEN LET r == simulate_batch(s.engine, sims_per_tick, s.sim_id_counter)
         IN  IF r.raised # "none"
             THEN [session |-> [s EXCEPT !.engine.rng = r.rng, !.running = FALSE],
                   rerun |-> FALSE]
             ELSE LET tick == s.tick_counter + 1
                      added == add_results(s.metrics, r.results)
                  IN  [session |->
                          [s EXCEPT !.engine.rng = r.rng,
                                    !.metrics = IF tick % HistoryEvery = 0
                                                THEN record_history(added, tick)
                                                ELSE added,
                                    !.sim_id_counter = @ + sims_per_tick,
                                    !.tick_counter = tick],
                       rerun |-> TRUE]
    ELSE [session |-> s, rerun |-> FALSE]

\* lines 341-348: revealed_count never exceeds the number of results
ClampRevealed(s) ==
    IF s.revealed_count > Len(s.metrics.results)
    THEN [s EXCEPT !.revealed_count = Len(s.metrics.results)]
    ELSE s

\* the script from the main panel on
MainPanel(s, sims_per_tick, max_sims) ==
    LET l == SimulationLoop(s, sims_per_tick, max_sims)
    IN  IF l.rerun THEN l.session ELSE ClampRevealed(l.session)

\* a run of the script with no button clicked
Rerun(sims_per_tick, max_sims) ==
    /\ session' = MainPanel(session, sims_per_tick, max_sims)
    /\ event' = "other"

\* lines 130-132, then the rest of the script
ClickReseed(seed, sims_per_tick, max_sims) ==
    /\ session' = MainPanel(IF session.engine # None
                            THEN [session EXCEPT !.engine = reseed(@, seed)]
                            ELSE session,
                            sims_per_tick, max_sims)
    /\ event' = "other"

\* lines 212-232: on success st.rerun() ends the run; on an exception the
\* session is as before and the script goes on
ClickStart(odds, jw, pw, seed, draw, sims_per_tick, max_sims) ==
    LET b == BuildEngine(odds, jw, pw, seed, draw)
    IN  /\ session' =
              IF b.raised = "none"
              THEN [session EXCEPT !.engine = b.engine,
                                   !.running = TRUE,
                                   !.sim_id_counter = 0,
                                   !.tick_counter = 0,
                                   !.revealed_count = 0,
                                   !.metrics = reset(@)]
              ELSE MainPanel(session, sims_per_tick, max_sims)
        /\ event' = IF b.raised = "none" THEN "start" ELSE "other"

\* lines 235-237
ClickStop ==
    /\ session' = [session EXCEPT !.running = FALSE]
    /\ event' = "other"

\* lines 239-248
ClickReset ==
    /\ session' = [session EXCEPT !.metrics = reset(@),
                                  !.running = FALSE,
                                  !.sim_id_counter = 0,
                                  !.tick_counter = 0,
                                  !.revealed_count = 0]
    /\ event' = "reset"

\* lines 252-276: the button exists only when there are results
ClickReveal(option) ==
    LET total_results == Len(session.metrics.results)
        revealed == session.revealed_count
    IN  /\ total_results > 0
        /\ session' =
              [session EXCEPT !.revealed_count =
                  IF option = "All"
                  THEN total_results
                  ELSE Min(revealed + RevealSize(option), total_results)]
        /\ event' = "other"

(***************************************************************************)
(* Specifications.                                                         *)
(***************************************************************************)
engineVars == <<engine, call, result, drawn>>
pairVars == <<eng, calls, seeded, ret, dirty, out>>
modelVars == <<built>>
oddsVars == <<price, prob>>
driverVars == <<session, event>>
normVars == <<probs, normalized>>
metricsVars == <<metrics, feed, base, batches, mop>>
vars == <<engine, call, result, drawn, eng, calls, seeded, ret, dirty, out, built,
          price, prob, session, event, probs, normalized,
          metrics, feed, base, batches, mop>>

Init ==
    /\ engine = None
    /\ call = [op |-> "none"]
    /\ result = None
    /\ drawn = <<>>
    /\ eng = [e \in PairIds |-> None]
    /\ calls = [e \in PairIds |-> <<>>]
    /\ seeded = [e \in PairIds |-> "none"]
    /\ ret = [e \in PairIds |-> None]
    /\ dirty = [e \in PairIds |-> FALSE]
    /\ out = [e \in PairIds |-> <<>>]
    /\ built = None
    /\ price = 0
    /\ prob = None
    /\ session = SessionInit
    /\ event = "none"
    /\ probs = None
    /\ normalized = None
    /\ metrics = None
    /\ feed = None
    /\ base = None
    /\ batches = <<>>
    /\ mop = [op |-> "none"]

\* one engine object followed from its construction, over every
\* configuration and call of the bounded input sets
\* configurations of other than 8 rounds come with positive weights only, so
\* that what the round count does and what an all-zero vector does are
\* seen apart
DoConstruct ==
    /\ engine = None
    /\ \E odds \in OddsChoices, jw \in JoshuaWeightChoices,
          pw \in PaulWeightChoices, seed \in Seeds, draw \in BOOLEAN :
          /\ odds.total_rounds # 8 => pw # Zero8
          /\ Construct(odds, jw, pw, seed, draw)
    /\ UNCHANGED <<pairVars, modelVars, oddsVars, driverVars, normVars, metricsVars>>

DoReseed ==
    /\ \E seed \in Seeds : Reseed(seed)
    /\ UNCHANGED <<pairVars, modelVars, oddsVars, driverVars, normVars, metricsVars>>

DoSimulateBatch ==
    /\ \E count \in Counts, start_id \in StartIds : SimulateBatch(count, start_id)
    /\ UNCHANGED <<pairVars, modelVars, oddsVars, driverVars, normVars, metricsVars>>

Next == DoConstruct \/ DoReseed \/ DoSimulateBatch

Spec == Init /\ [][Next]_vars

\* two instances, each followed from its construction.  Instance 1 makes any
\* calls; instance 2 is the instance it is compared with: it is constructed
\* and asked for non-empty batches only.
DoPairConstruct ==
    /\ \E e \in PairIds, params \in PairParams :
          eng[e] = None /\ PairConstruct(e, params)
    /\ UNCHANGED <<engineVars, modelVars, oddsVars, driverVars, normVars, metricsVars>>

DoPairReseed ==
    /\ \E seed \in PairSeeds : PairReseed(1, seed)
    /\ UNCHANGED <<engineVars, modelVars, oddsVars, driverVars, normVars, metricsVars>>

DoPairSimulateBatch ==
    /\ \/ \E count \in PairCounts, start_id \in PairStartIds :
             PairSimulateBatch(1, count, start_id)
       \/ \E count \in PairCounts \ {0}, start_id \in PairStartIds :
             PairSimulateBatch(2, count, start_id)
    /\ UNCHANGED <<engineVars, modelVars, oddsVars, driverVars, normVars, metricsVars>>

NextPair == DoPairConstruct \/ DoPairReseed \/ DoPairSimulateBatch

SpecPair == Init /\ [][NextPair]_vars

\* two instances, one asked for its records in two calls and the other in
\* one call
DoSplitBatch ==
    /\ Len(calls[1]) < 2
    /\ \E count \in 0..MaxCount, start_id \in 0..(MaxStartId + MaxCount) :
          PairSimulateBatch(1, count, start_id)
    /\ UNCHANGED <<engineVars, modelVars, oddsVars, driverVars, normVars,
                   metricsVars>>

DoWholeBatch ==
    /\ calls[2] = <<>>
    /\ \E start_id \in PairStartIds : PairSimulateBatch(2, MaxCount, start_id)
    /\ UNCHANGED <<engineVars, modelVars, oddsVars, driverVars, normVars,
                   metricsVars>>

NextSplit == DoPairConstruct \/ DoSplitBatch \/ DoWholeBatch

SpecSplit == Init /\ [][NextSplit]_vars

\* construction attempts, valid and invalid
DoBuild ==
    /\ \E odds \in BuildOdds, jw \in BuildWeights, pw \in BuildWeights,
          seed \in Seeds, draw \in BOOLEAN :
          Build(odds, jw, pw, seed, draw)
    /\ UNCHANGED <<engineVars, pairVars, oddsVars, driverVars, normVars, metricsVars>>

NextModel == DoBuild

SpecModel == Init /\ [][NextModel]_vars

\* price conversion
DoConvert ==
    /\ \E odds \in Prices : Convert(odds)
    /\ UNCHANGED <<engineVars, pairVars, modelVars, driverVars, normVars, metricsVars>>

NextOdds == DoConvert

SpecOdds == Init /\ [][NextOdds]_vars

\* normalization of mappings, valid and invalid
DoNormalize ==
    /\ \E p \in NormInputs : Normalize(p)
    /\ UNCHANGED <<engineVars, pairVars, modelVars, oddsVars, driverVars,
                   metricsVars>>

NextNorm == DoNormalize

SpecNorm == Init /\ [][NextNorm]_vars

\* an aggregator and the engine that feeds it
DoMetricsNew ==
    /\ metrics = None
    /\ \E params \in PairParams : MetricsNew(params)
    /\ UNCHANGED <<engineVars, pairVars, modelVars, oddsVars, driverVars,
                   normVars>>

DoMetricsAdd ==
    /\ \E count \in MetricsCounts, start_id \in PairStartIds :
          MetricsAdd(count, start_id)
    /\ UNCHANGED <<engineVars, pairVars, modelVars, oddsVars, driverVars,
                   normVars>>

DoMetricsReset ==
    /\ MetricsReset
    /\ UNCHANGED <<engineVars, pairVars, modelVars, oddsVars, driverVars,
                   normVars>>

DoMetricsRecordHistory ==
    /\ \E tick \in MetricsTicks : MetricsRecordHistory(tick)
    /\ UNCHANGED <<engineVars, pairVars, modelVars, oddsVars, driverVars,
                   normVars>>

NextMetrics ==
    DoMetricsNew \/ DoMetricsAdd \/ DoMetricsReset \/ DoMetricsRecordHistory

SpecMetrics == Init /\ [][NextMetrics]_vars

\* the driver
DoRerun ==
    /\ \E n \in SimsPerTick : Rerun(n, MaxSims)
    /\ UNCHANGED <<engineVars, pairVars, modelVars, oddsVars, normVars, metricsVars>>

DoClickReseed ==
    /\ \E seed \in PairSeeds, n \in SimsPerTick : ClickReseed(seed, n, MaxSims)
    /\ UNCHANGED <<engineVars, pairVars, modelVars, oddsVars, normVars, metricsVars>>

DoClickStart ==
    /\ \E odds \in DriverOdds, seed \in PairSeeds, n \in SimsPerTick :
          ClickStart(odds, Uniform8, Skew8, seed, FALSE, n, MaxSims)
    /\ UNCHANGED <<engineVars, pairVars, modelVars, oddsVars, normVars, metricsVars>>

DoClickStop ==
    /\ ClickStop
    /\ UNCHANGED <<engineVars, pairVars, modelVars, oddsVars, normVars, metricsVars>>

DoClickReset ==
    /\ ClickReset
    /\ UNCHANGED <<engineVars, pairVars, modelVars, oddsVars, normVars, metricsVars>>

DoClickReveal ==
    /\ \E option \in RevealOptions : ClickReveal(option)
    /\ UNCHANGED <<engineVars, pairVars, modelVars, oddsVars, normVars, metricsVars>>

NextDriver ==
    DoRerun \/ DoClickReseed \/ DoClickStart \/ DoClickStop \/ DoClickReset
        \/ DoClickReveal

SpecDriver == Init /\ [][NextDriver]_vars

(***************************************************************************)
(* Claims about two instances (SpecPair).                                  *)
(***************************************************************************)
Last(s) == s[Len(s)]

NonEmptyCalls(cs) == SelectSeq(cs, LAMBDA c : c.count # 0)

\* instances e and f were constructed from identical configurations and
\* neither has been reseeded
SameConstruction(e, f) ==
    /\ eng[e] # None /\ eng[f] # None
    /\ seeded[e] = "init" /\ seeded[f] = "init"
    /\ eng[e].params = eng[f].params

C2_ReseedLikeFresh ==
    \A e, f \in PairIds :
        (/\ eng[e] # None /\ eng[f] # None
         /\ seeded[e] = "reseed" /\ seeded[f] = "init"
         /\ eng[e].params = eng[f].params
         /\ Len(calls[e]) = 1
         /\ calls[f] = calls[e])
        => ret[e] = ret[f]

C2_Witness ==
    /\ eng[1] # None /\ eng[2] # None
    /\ seeded[1] = "reseed" /\ seeded[2] = "init" /\ dirty[1]
    /\ eng[1].params = eng[2].params
    /\ Len(calls[1]) = 1 /\ calls[2] = calls[1]
    /\ calls[1][1].count = MaxCount
    /\ ret[1].raised = "none" /\ Len(ret[1].results) = MaxCount
    /\ ret[1] = ret[2]

\* C3: simulate_batch(0, k) returns the empty list, and an instance that made
\* such calls has the generator state of an identically constructed instance
\* that made the same calls without them, and its later calls returned the
\* same records.
C3_ZeroCountNoEffect ==
    /\ \A e \in PairIds :
          (calls[e] # <<>> /\ Last(calls[e]).count = 0)
          => ret[e] = [raised |-> "none", results |-> <<>>]
    /\ \A e, f \in PairIds :
          (/\ SameConstruction(e, f)
           /\ calls[e] # calls[f]
           /\ NonEmptyCalls(calls[e]) = calls[f])
          => /\ eng[e].rng = eng[f].rng
             /\ Last(calls[e]).count # 0 => ret[e] = ret[f]

C3_Witness ==
    /\ SameConstruction(1, 2)
    /\ Len(calls[1]) = 2 /\ Len(calls[2]) = 1
    /\ calls[1][1].count = 0 /\ calls[1][1].start_id = MaxStartId
    /\ calls[1][2] = calls[2][1]
    /\ calls[2][1].count = MaxCount
    /\ Len(ret[2].results) = MaxCount
    /\ ret[1] = ret[2]

(***************************************************************************)
(* Claims about one engine (Spec).                                         *)
(***************************************************************************)
Returned == result # None /\ result.raised = "none"

IsFinish(rec) == rec.method = "KO/TKO/DQ"

\* C4: with total_rounds = R in the configuration, every record returned has
\* its round in 1..R when its method is the finish method, and round R + 1
\* when its method is decision or its winner is Draw.
C4_RoundRange ==
    Returned =>
        \A i \in 1..Len(result.results) :
            LET rec == result.results[i]
                R == engine.params.odds.total_rounds
            IN  /\ IsFinish(rec) => rec.round \in 1..R
                /\ (rec.method = "Decision" \/ rec.winner = "Draw")
                      => rec.round = R + 1

\* C5: simulate_batch(count, start_id) with count >= 0 returns exactly count
\* records and the record at position i (from 0) has sim_id start_id + i,
\* whatever calls the engine served before.
C5_BatchIds ==
    (call.op = "simulate_batch" /\ call.count >= 0)
    => /\ result.raised = "none"
       /\ Len(result.results) = call.count
       /\ \A i \in 1..Len(result.results) :
             result.results[i].sim_id = call.start_id + (i - 1)

C5_Witness ==
    /\ call.op = "simulate_batch"
    /\ call.count = MaxCount /\ call.start_id = MaxStartId
    /\ Len(result.results) = MaxCount
    /\ result.results[1].sim_id = MaxStartId
    /\ result.results[MaxCount].sim_id = MaxStartId + MaxCount - 1

\* the stored round weights of the party that won
WeightsOf(winner) ==
    IF winner = "Joshua"
    THEN engine.params.round_dist.joshua_ko_rounds
    ELSE engine.params.round_dist.paul_ko_rounds

AllZero(v) == \A j \in 1..Len(v) : v[j].n = 0

\* C8: no record returned by simulate_batch is a finish whose round was drawn
\* from an all-zero round-weight vector of the party that won.
C8_ZeroVectorNeverSampled ==
    Returned =>
        \A i \in 1..Len(result.results) :
            IsFinish(result.results[i])
                => ~AllZero(WeightsOf(result.results[i].winner))

\* C9: simulate_batch with a negative count raises and returns no records.
C9_NegativeCountFails ==
    (call.op = "simulate_batch" /\ call.count < 0)
    => /\ result.raised = "ValueError"
       /\ result.results = <<>>

C9_Witness ==
    /\ call.op = "simulate_batch" /\ call.count = -1
    /\ result.raised = "ValueError"

\* C16: a reseed(s) step leaves the stored seed equal to s and changes
\* nothing of the engine but the generator and that seed: the outcome list,
\* the normalized probabilities, the cumulative table and the stored round
\* weights are as before.
C16_ReseedFrame ==
    [][call'.op = "reseed" =>
          /\ engine'.params.seed = call'.seed
          /\ engine'.outcomes = engine.outcomes
          /\ engine'.normalized_probs = engine.normalized_probs
          /\ engine'.cumulative_probs = engine.cumulative_probs
          /\ engine'.params.round_dist = engine.params.round_dist
          /\ [engine' EXCEPT !.rng = 0, !.params.seed = 0]
                = [engine EXCEPT !.rng = 0, !.params.seed = 0]]_vars

C16_Witness ==
    /\ call.op = "reseed" /\ call.seed = MaxSeed
    /\ engine.params.seed = MaxSeed
    /\ Returned /\ Len(result.results) = MaxCount

\* the winner and method of the five outcomes in their fixed order
Canonical ==
    <<[winner |-> "Joshua", method |-> "KO/TKO/DQ"],
      [winner |-> "Joshua", method |-> "Decision"],
      [winner |-> "Paul", method |-> "KO/TKO/DQ"],
      [winner |-> "Paul", method |-> "Decision"],
      [winner |-> "Draw", method |-> "Decision"]>>

LabelOf(rec) == [winner |-> rec.winner, method |-> rec.method]

\* the lowest position of cum whose entry is at least u
FirstAtLeast(cum, u) ==
    CHOOSE j \in 1..Len(cum) :
        /\ ~RatLt(cum[j], u)
        /\ \A k \in 1..(j - 1) : RatLt(cum[k], u)

\* C18: the outcome of record i is the entry of lowest index, in the order
\* Joshua finish, Joshua decision, Paul finish, Paul decision, draw (when
\* enabled), whose cumulative probability is at least the value drawn for
\* record i; a value equal to a cumulative probability selects that entry.
C18_LowestIndexOutcome ==
    Returned =>
        /\ Len(drawn) = Len(result.results)
        /\ \A i \in 1..Len(result.results) :
              LET j == FirstAtLeast(engine.cumulative_probs, drawn[i])
              IN  /\ j <= (IF engine.params.enable_draw THEN 5 ELSE 4)
                  /\ LabelOf(result.results[i]) = Canonical[j]

C18_Witness ==
    /\ Returned
    /\ \E i \in 1..Len(result.results) :
          /\ RatEq(drawn[i], engine.cumulative_probs[1])
          /\ drawn[i].n > 0
          /\ LabelOf(result.results[i]) = Canonical[1]

FourOutcomes == {"joshua_ko", "joshua_decision", "paul_ko", "paul_decision"}

LabelOfOutcome(outcome) ==
    CASE outcome = "joshua_ko" -> Canonical[1]
      [] outcome = "joshua_decision" -> Canonical[2]
      [] outcome = "paul_ko" -> Canonical[3]
      [] outcome = "paul_decision" -> Canonical[4]
      [] outcome = "draw" -> Canonical[5]

\* C19: with the draw flag disabled the engine's tables hold exactly the
\* four win outcomes and are those of any other draw price, and no record
\* returned has winner Draw; the winner and method of every record returned
\* are those of an outcome of the engine's outcome table.
C19_NoDrawWhenDisabled ==
    /\ (engine # None /\ ~engine.params.enable_draw) =>
          /\ Len(engine.outcomes) = 4
          /\ {engine.outcomes[j] : j \in 1..4} = FourOutcomes
          /\ DOMAIN engine.normalized_probs = FourOutcomes
          /\ Len(engine.cumulative_probs) = 4
          /\ \A p \in {-300, 0, 800} :
                LET t == compute_probabilities(
                             [engine.params EXCEPT !.odds.draw = p])
                IN  /\ t.raised = "none"
                    /\ t.normalized_probs = engine.normalized_probs
                    /\ t.cumulative_probs = engine.cumulative_probs
          /\ Returned =>
                \A i \in 1..Len(result.results) :
                    result.results[i].winner # "Draw"
    /\ Returned =>
          \A i \in 1..Len(result.results) :
              \E j \in 1..Len(engine.outcomes) :
                  LabelOf(result.results[i]) = LabelOfOutcome(engine.outcomes[j])

C19_Witness ==
    /\ Returned
    /\ ~engine.params.enable_draw
    /\ engine.params.odds.draw = 300
    /\ Len(result.results) = MaxCount
    /\ RatLt(engine.cumulative_probs[3], drawn[1])
    /\ LabelOf(result.results[1]) = Canonical[4]

(***************************************************************************)
(* Claims about the driver (SpecDriver).                                   *)
(***************************************************************************)
\* C6: the record at position k (from 0) of the aggregator has sim_id k, the
\* driver's next-id counter equals the number of accumulated records, and
\* right after Start or Reset the counter is 0 and the aggregator is empty.
C6_SequenceIds ==
    LET r == session.metrics.results
    IN  /\ \A k \in 1..Len(r) : r[k].sim_id = k - 1
        /\ session.sim_id_counter = Len(r)
        /\ event \in {"start", "reset"}
              => session.sim_id_counter = 0 /\ r = <<>>

C6_Witness ==
    LET r == session.metrics.results
    IN  /\ event = "other"
        /\ session.tick_counter >= 2
        /\ Len(r) >= 3
        /\ r[Len(r)].sim_id = Len(r) - 1
        /\ session.sim_id_counter = Len(r)

(***************************************************************************)
(* Claims about construction (SpecModel).                                  *)
(***************************************************************************)
\* C7: a construction whose round-weight vector, for either party, has a
\* length other than the configuration's total_rounds raises a validation
\* error and produces no engine.
C7_WrongLengthRejected ==
    built # None =>
        ((\/ Len(built.joshua_ko_rounds) # built.odds.total_rounds
          \/ Len(built.paul_ko_rounds) # built.odds.total_rounds)
         => built.outcome.raised = "ValueError")

(***************************************************************************)
(* Claims about price conversion (SpecOdds).                               *)
(***************************************************************************)
Converted == prob # None

\* C10 as stated: the probability returned for a price of 0 is 1/2.
C10_ZeroGivesHalf ==
    (Converted /\ price = 0) => RatEq(prob, [n |-> 1, d |-> 2])

\* C10, amended: a price of 0 takes the branch of the non-positive prices and
\* the probability returned is |0| / (|0| + 100) = 0.
C10_ZeroGivesZero ==
    (Converted /\ price = 0) => prob = [n |-> 0, d |-> 1]

C10_Witness ==
    Converted /\ price = 0 /\ prob.n = 0

\* C11: the probability returned for a price p is the ratio 100 / (p + 100)
\* when p > 0 and |p| / (|p| + 100) when p <= 0; -1200 gives 12/13, 800 gives
\* 1/9 and 100 gives 1/2.
C11_ImpliedProbability ==
    Converted =>
        /\ prob.d > 0
        /\ price > 0 => prob.n * (price + 100) = 100 * prob.d
        /\ price <= 0 => prob.n * (Abs(price) + 100) = Abs(price) * prob.d
        /\ price = -1200 => prob = [n |-> 12, d |-> 13]
        /\ price = 800 => prob = [n |-> 1, d |-> 9]
        /\ price = 100 => prob = [n |-> 1, d |-> 2]

C11_Witness ==
    Converted /\ price = 800 /\ prob = [n |-> 1, d |-> 9]

(***************************************************************************)
(* Claims about normalization (SpecNorm).                                  *)
(***************************************************************************)
Normalized == normalized # None

\* C12: normalize_probs raises, and returns no mapping, exactly when the
\* values of the mapping sum to 0; otherwise it returns a mapping with the
\* same keys in which each value times the sum of the input values is the
\* input value.
C12_Normalize ==
    Normalized =>
        LET total == RatSumOver(probs, DOMAIN probs)
        IN  /\ (normalized.raised = "ValueError") <=> (total.n = 0)
            /\ total.n = 0 => DOMAIN normalized = {"raised"}
            /\ total.n # 0 =>
                  /\ normalized.raised = "none"
                  /\ DOMAIN normalized.value = DOMAIN probs
                  /\ \A k \in DOMAIN probs :
                        LET v == normalized.value[k]
                        IN  /\ v.d > 0
                            /\ v.n * probs[k].d * total.n
                                  = probs[k].n * total.d * v.d

C12_Witness ==
    /\ Normalized
    /\ normalized.raised = "ValueError"
    /\ \E k \in DOMAIN probs : probs[k].n # 0

(***************************************************************************)
(* Claims about the aggregator (SpecMetrics).                              *)
(***************************************************************************)
\* C13: for each party the counts of get_ko_round_distribution sum to the
\* number of records get_summary_stats counts as that party's finishes:
\* its finish percentage times total_sims / 100.
C13_HistogramTotals ==
    metrics # None =>
        LET h == get_ko_round_distribution(metrics)
            st == get_summary_stats(metrics)
        IN  /\ st.joshua_ko_pct.n * st.total_sims
                  = 100 * SumSeq(h.Joshua) * st.joshua_ko_pct.d
            /\ st.paul_ko_pct.n * st.total_sims
                  = 100 * SumSeq(h.Paul) * st.paul_ko_pct.d

C13_Witness ==
    /\ metrics # None
    /\ Len(batches) >= 2
    /\ SumSeq(get_ko_round_distribution(metrics).Joshua) >= 1
    /\ SumSeq(get_ko_round_distribution(metrics).Paul) >= 1
    /\ get_summary_stats(metrics).total_sims >= 3

ZeroStats ==
    [total_sims |-> 0,
     joshua_win_pct |-> RatZero, paul_win_pct |-> RatZero, draw_pct |-> RatZero,
     joshua_ko_pct |-> RatZero, joshua_decision_pct |-> RatZero,
     paul_ko_pct |-> RatZero, paul_decision_pct |-> RatZero]

\* C14: whenever the aggregator holds no records, get_summary_stats returns
\* total_sims = 0 and every percentage 0, and no division by zero.
C14_EmptySummary ==
    (metrics # None /\ metrics.results = <<>>)
    => get_summary_stats(metrics) = ZeroStats

C14_Witness ==
    /\ metrics # None
    /\ mop.op = "reset" /\ mop.dropped >= 2
    /\ metrics.results = <<>>
    /\ get_summary_stats(metrics).total_sims = 0

\* C15: after consecutive add_results calls the aggregator holds the records
\* it held before followed by the batches in the order given, duplicates
\* kept, which is what one add_results of their concatenation leaves; the
\* history is as it was.
C15_OrderPreservingFold ==
    metrics # None =>
        /\ metrics.results = base.results \o Flatten(batches)
        /\ metrics.history = base.history
        /\ metrics = add_results(base, Flatten(batches))

C15_Witness ==
    /\ metrics # None
    /\ Len(batches) = 2
    /\ batches[1] # <<>> /\ batches[2] # <<>>
    /\ batches[1][1].sim_id = batches[2][1].sim_id
    /\ base.results # <<>> /\ base.history # <<>>
    /\ metrics.results = base.results \o batches[1] \o batches[2]

(***************************************************************************)
(* Claims about the order of the draws (SpecSplit).                        *)
(***************************************************************************)
RECURSIVE RngAfter(_, _)
RngAfter(rng, k) == IF k = 0 THEN rng ELSE RngAfter(RngNext(rng), k - 1)

\* the k-th value instance e's generator gave since it was seeded
StreamValue(e, k) ==
    Rat(RngAfter(default_rng(eng[e].params.seed), k), RngStates)

FinishesIn(rs) == Cardinality({k \in 1..Len(rs) : IsFinish(rs[k])})

\* the number of values instance e had drawn before its last call
DrawnBefore(e) ==
    LET before == SubSeq(out[e], 1, Len(out[e]) - Len(ret[e].results))
    IN  Len(before) + FinishesIn(before)

\* the round a finish of rec's winner gets from the value u
RoundFrom(e, rec, u) ==
    LET w == IF rec.winner = "Joshua"
             THEN eng[e].params.round_dist.joshua_ko_rounds
             ELSE eng[e].params.round_dist.paul_ko_rounds
    IN  Min(FirstAtLeast(cumsum(w), u), 8)

HasReturned(e) ==
    eng[e] # None /\ ret[e] # None /\ ret[e].raised = "none"

\* instance 1 made simulate_batch(a, s) and simulate_batch(b, s + a),
\* instance 2 of the same construction made simulate_batch(a + b, s)
SplitAndWhole ==
    /\ SameConstruction(1, 2)
    /\ Len(calls[1]) = 2 /\ Len(calls[2]) = 1
    /\ calls[1][2].start_id = calls[1][1].start_id + calls[1][1].count
    /\ calls[2][1].start_id = calls[1][1].start_id
    /\ calls[2][1].count = calls[1][1].count + calls[1][2].count

\* C17 as stated: in a call the value deciding record i's outcome is drawn
\* first, then, if record i is a finish, the value deciding its round, and
\* only then the values of record i + 1; and two calls for a and b records
\* return what one call for a + b records returns.
C17_DrawByDraw ==
    /\ \A e \in PairIds :
          HasReturned(e) =>
              LET rs == ret[e].results
              IN  \A i \in 1..Len(rs) :
                      LET pos == DrawnBefore(e) + i
                                   + FinishesIn(SubSeq(rs, 1, i - 1))
                      IN  /\ LabelOf(rs[i])
                                = Canonical[FirstAtLeast(eng[e].cumulative_probs,
                                                         StreamValue(e, pos))]
                          /\ IsFinish(rs[i]) =>
                                rs[i].round
                                  = RoundFrom(e, rs[i], StreamValue(e, pos + 1))
    /\ SplitAndWhole => out[1] = out[2]

\* C17, amended: in a call for n records the n values deciding the outcomes
\* are drawn first, in record order, and then, in record order, one value
\* for the round of each record that is a finish; two calls for a and b
\* records return what one call for a + b records returns when b = 0 or
\* none of the first a records is a finish.
C17_OutcomesThenRounds ==
    /\ \A e \in PairIds :
          HasReturned(e) =>
              LET rs == ret[e].results
              IN  \A i \in 1..Len(rs) :
                      /\ LabelOf(rs[i])
                            = Canonical[FirstAtLeast(eng[e].cumulative_probs,
                                            StreamValue(e, DrawnBefore(e) + i))]
                      /\ IsFinish(rs[i]) =>
                            rs[i].round
                              = RoundFrom(e, rs[i],
                                    StreamValue(e, DrawnBefore(e) + Len(rs)
                                        + FinishesIn(SubSeq(rs, 1, i))))
    /\ (/\ SplitAndWhole
        /\ \/ calls[1][2].count = 0
           \/ FinishesIn(SubSeq(out[1], 1, calls[1][1].count)) = 0)
       => out[1] = out[2]

C17_Witness ==
    /\ SplitAndWhole
    /\ calls[1][1].count >= 1 /\ calls[1][2].count >= 1
    /\ ~IsFinish(out[1][1])
    /\ IsFinish(out[1][Len(out[1])])
    /\ out[1] = out[2]

=============================================================================
